---------------------------- MODULE Spec2Model ----------------------------
(***************************************************************************)
(* A model of the rust-raytracer core: f64 arithmetic (exact rationals     *)
(* plus the IEEE-754 special values), the AABB slab test, Sphere / Rect /  *)
(* FlipFace / ObjectGroup intersection, the BVH build, the recursive       *)
(* integrator Scene::color_of_ray and the row-parallel render loop.        *)
(*                                                                         *)
(* A value the code binds with `let` and reads several times is passed on  *)
(* as an operator parameter, so a function of the code may be spread over  *)
(* a chain of operators (Sphere_hit, Sphere_hit_abc, Sphere_hit_delta ...).*)
(***************************************************************************)
EXTENDS Integers, Sequences, FiniteSets, TLC

(***************************************************************************)
(* f64 values.  A finite value is an exact rational n/d in lowest terms    *)
(* (rounding is not modelled); the IEEE-754 special values are kept:       *)
(* +inf, -inf, NaN and the negative zero.                                  *)
(***************************************************************************)
RECURSIVE GCD(_, _)
GCD(a, b) == IF b = 0 THEN a ELSE GCD(b, a % b)

Abs(i) == IF i < 0 THEN -i ELSE i

Sgn(i) == IF i < 0 THEN -1 ELSE IF i > 0 THEN 1 ELSE 0

LCM(a, b) == (a \div GCD(a, b)) * b

MkG(n, d, g) == [k |-> "fin", n |-> n \div g, d |-> d \div g]

\* the rational n/d, d > 0, in lowest terms
Mk(n, d) == MkG(n, d, GCD(Abs(n), d))

F(i) == [k |-> "fin", n |-> i, d |-> 1]

PInf == [k |-> "inf", n |-> 1, d |-> 1]

NInf == [k |-> "inf", n |-> -1, d |-> 1]

NaN == [k |-> "nan", n |-> 0, d |-> 1]

\* -0.0
NegZero == [k |-> "nzero", n |-> 0, d |-> 1]

Inf(s) == IF s < 0 THEN NInf ELSE PInf

IsNaN(a) == a.k = "nan"

IsInf(a) == a.k = "inf"

IsFin(a) == a.k \in {"fin", "nzero"}

IsZero(a) == IsFin(a) /\ a.n = 0

\* the sign bit: -1 for negative values and -0.0, else 1
SignBit(a) == IF a.k = "nzero" \/ a.n < 0 THEN -1 ELSE 1

ENeg(a) ==
    CASE a.k = "nan" -> NaN
      [] a.k = "inf" -> Inf(-a.n)
      [] a.k = "nzero" -> F(0)
      [] OTHER -> IF a.n = 0 THEN NegZero ELSE [a EXCEPT !.n = -a.n]

AddL(a, b, l) == Mk(a.n * (l \div a.d) + b.n * (l \div b.d), l)

EAdd(a, b) ==
    CASE IsNaN(a) \/ IsNaN(b) -> NaN
      [] IsInf(a) /\ IsInf(b) -> IF a.n = b.n THEN a ELSE NaN
      [] IsInf(a) -> a
      [] IsInf(b) -> b
      [] a.k = "nzero" /\ b.k = "nzero" -> NegZero
      [] OTHER -> AddL(a, b, LCM(a.d, b.d))

ESub(a, b) == EAdd(a, ENeg(b))

MulG(a, b, g1, g2) == Mk((a.n \div g1) * (b.n \div g2), (a.d \div g2) * (b.d \div g1))

\* a zero with the sign s
Zero(s) == IF s < 0 THEN NegZero ELSE F(0)

EMul(a, b) ==
    CASE IsNaN(a) \/ IsNaN(b) -> NaN
      [] IsInf(a) \/ IsInf(b) ->
            IF IsZero(a) \/ IsZero(b) THEN NaN ELSE Inf(SignBit(a) * SignBit(b))
      [] IsZero(a) \/ IsZero(b) -> Zero(SignBit(a) * SignBit(b))
      [] OTHER -> MulG(a, b, GCD(Abs(a.n), b.d), GCD(Abs(b.n), a.d))

EDiv(a, b) ==
    CASE IsNaN(a) \/ IsNaN(b) -> NaN
      [] IsInf(a) /\ IsInf(b) -> NaN
      [] IsInf(a) -> Inf(SignBit(a) * SignBit(b))
      [] IsInf(b) -> Zero(SignBit(a) * SignBit(b))
      [] IsZero(b) -> IF IsZero(a) THEN NaN ELSE Inf(SignBit(a) * SignBit(b))
      [] OTHER -> EMul(a, Mk(Sgn(b.n) * b.d, Abs(b.n)))

FinLtQ(a, b, qa, qb, l) ==
    IF qa # qb THEN qa < qb
    ELSE (a.n % a.d) * (l \div a.d) < (b.n % b.d) * (l \div b.d)

\* a < b on finite values, by integer part first so that no product overflows
FinLt(a, b) == FinLtQ(a, b, a.n \div a.d, b.n \div b.d, LCM(a.d, b.d))

\* IEEE comparisons: every comparison with NaN is false
ELt(a, b) ==
    CASE IsNaN(a) \/ IsNaN(b) -> FALSE
      [] IsInf(a) /\ IsInf(b) -> a.n < b.n
      [] IsInf(a) -> a.n < 0
      [] IsInf(b) -> b.n > 0
      [] OTHER -> FinLt(a, b)

EGt(a, b) == ELt(b, a)

EEq(a, b) ==
    CASE IsNaN(a) \/ IsNaN(b) -> FALSE
      [] IsInf(a) \/ IsInf(b) -> IsInf(a) /\ IsInf(b) /\ a.n = b.n
      [] OTHER -> a.n = b.n /\ a.d = b.d

ELe(a, b) == ELt(a, b) \/ EEq(a, b)

EGe(a, b) == ELe(b, a)

\* f64::min and f64::max: the other operand when one is NaN
EMin(a, b) == IF IsNaN(a) THEN b ELSE IF IsNaN(b) THEN a ELSE IF ELt(b, a) THEN b ELSE a

EMax(a, b) == IF IsNaN(a) THEN b ELSE IF IsNaN(b) THEN a ELSE IF ELt(a, b) THEN b ELSE a

RECURSIVE ISqrtIn(_, _, _)
ISqrtStep(lo, hi, m, mid) ==
    IF mid * mid <= m THEN ISqrtIn(mid, hi, m) ELSE ISqrtIn(lo, mid - 1, m)

\* the largest r in lo..hi with r*r <= m
ISqrtIn(lo, hi, m) == IF lo >= hi THEN lo ELSE ISqrtStep(lo, hi, m, (lo + hi + 1) \div 2)

ISqrt(m) == ISqrtIn(0, IF m < 46340 THEN m ELSE 46340, m)

\* f64::sqrt: exact when n*d is a perfect square, else rounded down to the grid 1/d
ESqrt(a) ==
    CASE IsNaN(a) -> NaN
      [] IsInf(a) -> IF a.n > 0 THEN PInf ELSE NaN
      [] a.n < 0 -> NaN
      [] a.k = "nzero" -> NegZero
      [] OTHER -> Mk(ISqrt(a.n * a.d), a.d)

\* `x as i64` on the finite values and NaN: truncation toward zero, NaN to 0
AsI64(a) ==
    IF ~IsFin(a) THEN 0
    ELSE IF a.n >= 0 THEN a.n \div a.d ELSE -((-a.n) \div a.d)

(***************************************************************************)
(* Vec3 (vec3.rs): <<x, y, z>>; the code's index a in 0..2 is a+1 here.    *)
(***************************************************************************)
Vec3_empty == <<F(0), F(0), F(0)>>

At(v, a) == v[a + 1]

\* v with component a (0..2) set to x
SetAt(v, a, x) == [v EXCEPT ![a + 1] = x]

Vec3_add(u, v) == <<EAdd(u[1], v[1]), EAdd(u[2], v[2]), EAdd(u[3], v[3])>>

Vec3_neg(v) == <<ENeg(v[1]), ENeg(v[2]), ENeg(v[3])>>

Vec3_sub(u, v) == Vec3_add(u, Vec3_neg(v))

Vec3_mul(v, fact) == <<EMul(v[1], fact), EMul(v[2], fact), EMul(v[3], fact)>>

Vec3_div(v, fact) == Vec3_mul(v, EDiv(F(1), fact))

Vec3_dot(u, v) == EAdd(EAdd(EMul(u[1], v[1]), EMul(u[2], v[2])), EMul(u[3], v[3]))

Vec3_mag_squared(v) == Vec3_dot(v, v)

Vec3_mag(v) == ESqrt(Vec3_mag_squared(v))

Vec3_unit_vec(v) == Vec3_div(v, Vec3_mag(v))

Vec3_reflect(v, normal) == Vec3_sub(v, Vec3_mul(Vec3_mul(normal, F(2)), Vec3_dot(v, normal)))

EAbs(x) == IF ELt(x, F(0)) THEN ENeg(x) ELSE x

Vec3_is_zero(v) == ~\E i \in 1..3 : EGt(EAbs(v[i]), Mk(1, 100000))

\* Vec3::rand_in_hemisphere with v the vector drawn by rand_in_unit_circle
Vec3_rand_in_hemisphere(normal, v) ==
    IF EGt(Vec3_dot(normal, v), F(0)) THEN v ELSE Vec3_neg(v)

(***************************************************************************)
(* Ray (ray.rs)                                                            *)
(***************************************************************************)
Ray_new(origin, dir) == [origin |-> origin, dir |-> Vec3_unit_vec(dir)]

Ray_cast(ray, t) == Vec3_add(ray.origin, Vec3_mul(ray.dir, t))

(***************************************************************************)
(* AABB (bounding_box.rs)                                                  *)
(***************************************************************************)
AABB_new(start, end) == [start |-> start, end |-> end]

\* t_min = if t0 > t_min {t0} else {t_min}; t_max = if t1 < t_max {t1} else {t_max}
SlabClip(t0, t1, t_min, t_max) ==
    << IF EGt(t0, t_min) THEN t0 ELSE t_min, IF ELt(t1, t_max) THEN t1 ELSE t_max >>

\* the narrowing without the swap
SlabSwap_never(t0, t1, inv_d, t_min, t_max) == SlabClip(t0, t1, t_min, t_max)

\* if inv_d < 0 { swap(t0, t1) }
SlabSwap(t0, t1, inv_d, t_min, t_max) ==
    IF ELt(inv_d, F(0)) THEN SlabClip(t1, t0, t_min, t_max) ELSE SlabClip(t0, t1, t_min, t_max)

SlabTimes(lo, hi, inv_d, t_min, t_max) ==
    SlabSwap(EMul(lo, inv_d), EMul(hi, inv_d), inv_d, t_min, t_max)

\* one turn of the loop of AABB::hit on axis a: the narrowed <<t_min, t_max>>
SlabNarrow(bb, r, a, w) ==
    SlabTimes(ESub(At(bb.start, a), At(r.origin, a)), ESub(At(bb.end, a), At(r.origin, a)),
              EDiv(F(1), At(r.dir, a)), w[1], w[2])

\* the loop's exit test after an axis: t_max <= t_min
SlabEmpty(w) == ELe(w[2], w[1])

RECURSIVE AABB_hit_loop(_, _, _, _)
AABB_hit_exit(bb, r, a, w) == IF SlabEmpty(w) THEN FALSE ELSE AABB_hit_loop(bb, r, a + 1, w)

\* for a in 0..3 { ... }
AABB_hit_loop(bb, r, a, w) ==
    IF a >= 3 THEN TRUE ELSE AABB_hit_exit(bb, r, a, SlabNarrow(bb, r, a, w))

AABB_hit(bb, r, t_min, t_max) == AABB_hit_loop(bb, r, 0, <<t_min, t_max>>)

\* the union that keeps the first box's lower corner
AABB_combine_keep_start(a, b) ==
    AABB_new(a.start,
             <<EMax(a.end[1], b.end[1]), EMax(a.end[2], b.end[2]),
               EMax(a.end[3], b.end[3])>>)

AABB_combine(a, b) ==
    AABB_new(<<EMin(a.start[1], b.start[1]), EMin(a.start[2], b.start[2]),
               EMin(a.start[3], b.start[3])>>,
             <<EMax(a.end[1], b.end[1]), EMax(a.end[2], b.end[2]),
               EMax(a.end[3], b.end[3])>>)

(***************************************************************************)
(* Option<T>: None is <<>>, Some(x) is <<x>>                               *)
(***************************************************************************)
None == <<>>

Some(x) == <<x>>

IsSome(o) == o # <<>>

Unwrap(o) == o[1]

(***************************************************************************)
(* Primitives (object.rs)                                                  *)
(***************************************************************************)
T_MIN == Mk(1, 10000)

T_MAX == F(100000000)

EPS == Mk(1, 10000)

\* the padding of Rect::bounding_box along the perpendicular axis
RectPadPerp == Mk(1, 10000)

\* the padding of Rect::bounding_box along the two in-plane axes
RectPadPlane == Mk(1, 1000)

RayHit(col, point, t, normal, front_face, mat) ==
    [col |-> col, point |-> point, t |-> t, normal |-> normal,
     front_face |-> front_face, mat |-> mat]

Sphere_box_of(center, rvec) == Some(AABB_new(Vec3_sub(center, rvec), Vec3_add(center, rvec)))

Sphere_bounding_box(s) == Sphere_box_of(s.center, <<s.r, s.r, s.r>>)

valid_t(t) == ELe(T_MIN, t) /\ ELe(t, T_MAX)

\* the (normal, front_face) pair of Sphere::hit
Sphere_face(normal_to_outside, dir) ==
    IF EGt(Vec3_dot(normal_to_outside, dir), F(0))
    THEN <<Vec3_neg(normal_to_outside), FALSE>>
    ELSE <<normal_to_outside, TRUE>>

Sphere_hit_record(s, t, point, nf) == Some(RayHit(s.color, point, t, nf[1], nf[2], s.mat))

Sphere_hit_point(s, ray, t, intersection_point) ==
    Sphere_hit_record(s, t, intersection_point,
        Sphere_face(Vec3_unit_vec(Vec3_sub(intersection_point, s.center)), ray.dir))

Sphere_hit_at(s, ray, t) == Sphere_hit_point(s, ray, t, Ray_cast(ray, t))

\* let t = if valid_t(t1) { t1 } else if valid_t(t2) { t2 } else { return None }
Sphere_hit_roots(s, ray, t1, t2) ==
    IF valid_t(t1) THEN Sphere_hit_at(s, ray, t1)
    ELSE IF valid_t(t2) THEN Sphere_hit_at(s, ray, t2) ELSE None

Sphere_hit_sqrt(s, ray, a, b, sq) ==
    Sphere_hit_roots(s, ray, EDiv(ESub(ENeg(b), sq), EMul(F(2), a)),
                             EDiv(EAdd(ENeg(b), sq), EMul(F(2), a)))

Sphere_hit_delta(s, ray, a, b, delta) ==
    IF ELt(delta, F(0)) THEN None ELSE Sphere_hit_sqrt(s, ray, a, b, ESqrt(delta))

Sphere_hit_abc(s, ray, a, b, c) ==
    Sphere_hit_delta(s, ray, a, b, ESub(EMul(b, b), EMul(EMul(a, c), F(4))))

Sphere_hit_diff(s, ray, diff) ==
    Sphere_hit_abc(s, ray, Vec3_mag_squared(ray.dir), EMul(Vec3_dot(ray.dir, diff), F(2)),
                   ESub(Vec3_mag_squared(diff), EMul(s.r, s.r)))

Sphere_hit(s, ray) ==
    IF ~AABB_hit(Unwrap(Sphere_bounding_box(s)), ray, T_MIN, T_MAX) THEN None
    ELSE Sphere_hit_diff(s, ray, Vec3_sub(ray.origin, s.center))

\* (perp, a0, a1) of Rect::axis
Rect_axis(rect) ==
    CASE rect.axis = "XY" -> <<2, 0, 1>>
      [] rect.axis = "XZ" -> <<1, 0, 2>>
      [] rect.axis = "YZ" -> <<0, 1, 2>>

\* the window test on t of Rect::hit (TRUE: return None)
Rect_t_rejected(t) == ELt(t, T_MIN) \/ EGt(t, T_MAX)

\* the (normal, front_face) pair of Rect::hit
Rect_face(normal, dir) ==
    IF EGt(Vec3_dot(normal, dir), F(0))
    THEN <<Vec3_neg(normal), TRUE>>
    ELSE <<normal, FALSE>>

Rect_hit_record(rect, ray, t, nf) ==
    Some(RayHit(<<F(1), F(0), F(0)>>, Ray_cast(ray, t), t, nf[1], nf[2], rect.mat))

\* the test of the hit point against the two intervals (TRUE: return None)
Rect_outside(rect, hit_0, hit_1) ==
    \/ ELt(ESub(hit_0, EPS), rect.p0[1])
    \/ EGt(EAdd(hit_0, EPS), rect.p0[2])
    \/ ELt(ESub(hit_1, EPS), rect.p1[1])
    \/ EGt(EAdd(hit_1, EPS), rect.p1[2])

Rect_hit_plane(rect, ray, perp, t, hit_0, hit_1) ==
    IF Rect_outside(rect, hit_0, hit_1) THEN None
    ELSE Rect_hit_record(rect, ray, t, Rect_face(SetAt(Vec3_empty, perp, F(1)), ray.dir))

Rect_hit_t(rect, ray, ax, t) ==
    IF Rect_t_rejected(t) THEN None
    ELSE Rect_hit_plane(rect, ray, ax[1], t,
                        EAdd(At(ray.origin, ax[2]), EMul(t, At(ray.dir, ax[2]))),
                        EAdd(At(ray.origin, ax[3]), EMul(t, At(ray.dir, ax[3]))))

Rect_hit_axes(rect, ray, ax) ==
    Rect_hit_t(rect, ray, ax, EDiv(ESub(rect.k, At(ray.origin, ax[1])), At(ray.dir, ax[1])))

Rect_hit(rect, ray) == Rect_hit_axes(rect, ray, Rect_axis(rect))

Rect_box_axes(rect, ax) ==
    Some(AABB_new(
        SetAt(SetAt(SetAt(Vec3_empty, ax[1], ESub(rect.k, RectPadPerp)),
                    ax[2], ESub(rect.p0[1], RectPadPlane)),
              ax[3], ESub(rect.p1[1], RectPadPlane)),
        SetAt(SetAt(SetAt(Vec3_empty, ax[1], EAdd(rect.k, RectPadPerp)),
                    ax[2], EAdd(rect.p0[2], RectPadPlane)),
              ax[3], EAdd(rect.p1[2], RectPadPlane))))

Rect_bounding_box(rect) == Rect_box_axes(rect, Rect_axis(rect))

\* the closure of the reduce in ObjectGroup::new and ObjectGroup::bounding_box
ReduceStep(a, b) ==
    IF ~IsSome(a) THEN None
    ELSE IF ~IsSome(b) THEN None ELSE Some(AABB_combine(Unwrap(a), Unwrap(b)))

RECURSIVE ReduceBoxes(_, _, _)
\* Iterator::reduce over the boxes bs from index i with accumulator acc
ReduceBoxes(bs, i, acc) ==
    IF i > Len(bs) THEN acc ELSE ReduceBoxes(bs, i + 1, ReduceStep(acc, bs[i]))

\* Iterator::reduce over all of bs: None when bs is empty (flattened with the
\* inner Option)
ReduceAll(bs) == IF Len(bs) = 0 THEN None ELSE ReduceBoxes(bs, 2, bs[1])

RECURSIVE bounding_box(_)
\* Object::bounding_box by dynamic dispatch; a group recomputes its box from
\* its members' boxes
bounding_box(obj) ==
    CASE obj.kind = "Sphere"   -> Sphere_bounding_box(obj)
      [] obj.kind = "Rect"     -> Rect_bounding_box(obj)
      [] obj.kind = "FlipFace" -> bounding_box(obj.obj)
      [] obj.kind = "ObjectGroup" ->
            ReduceAll([i \in 1..Len(obj.objs) |-> bounding_box(obj.objs[i])])

\* the step of the fold of ObjectGroup::hit
FoldStep(acc, h) ==
    IF IsSome(h)
    THEN IF IsSome(acc)
         THEN IF ELt(Unwrap(h).t, Unwrap(acc).t) THEN h ELSE acc
         ELSE h
    ELSE acc

RECURSIVE FoldHits(_, _, _)
FoldHits(hs, i, acc) ==
    IF i > Len(hs) THEN acc ELSE FoldHits(hs, i + 1, FoldStep(acc, hs[i]))

\* a wrapper that passes every hit of the wrapped object on
FlipFace_filter_any(h) == h

\* FlipFace::hit on the wrapped object's result
FlipFace_filter(h) == IF ~IsSome(h) THEN None ELSE IF Unwrap(h).front_face THEN h ELSE None

\* the bounding-box rejection at the head of ObjectGroup::hit
Group_rejects(g, ray) == ~AABB_hit(g.bb, ray, T_MIN, T_MAX)

RECURSIVE hit(_, _)
\* Object::hit by dynamic dispatch
hit(obj, ray) ==
    CASE obj.kind = "Sphere"   -> Sphere_hit(obj, ray)
      [] obj.kind = "Rect"     -> Rect_hit(obj, ray)
      [] obj.kind = "FlipFace" -> FlipFace_filter(hit(obj.obj, ray))
      [] obj.kind = "ObjectGroup" ->
            IF Group_rejects(obj, ray) THEN None
            ELSE FoldHits([i \in 1..Len(obj.objs) |-> hit(obj.objs[i], ray)], 1, None)

(***************************************************************************)
(* ObjectGroup construction (object.rs).  A panic (unwrap on None) is the  *)
(* value Panic.                                                            *)
(***************************************************************************)
Panic == [kind |-> "panic"]

IsPanic(x) == x.kind = "panic"

Group(objs, bb) == [kind |-> "ObjectGroup", objs |-> objs, bb |-> bb]

\* a constructor that yields a group with an empty box where the code unwraps None
ObjectGroup_new_empty_box(objs, bb) ==
    IF ~IsSome(bb) THEN Group(objs, AABB_new(Vec3_empty, Vec3_empty)) ELSE Group(objs, Unwrap(bb))

\* .unwrap().unwrap() on the reduced box, then Self { objs, bb }
ObjectGroup_new_unwrap(objs, bb) == IF ~IsSome(bb) THEN Panic ELSE Group(objs, Unwrap(bb))

ObjectGroup_new(objs) ==
    ObjectGroup_new_unwrap(objs, ReduceAll([i \in 1..Len(objs) |-> bounding_box(objs[i])]))

\* the sort key of one element, with the axis drawn for that element by
\* rng.gen_range(0..3) inside the key closure
SortKey(obj, axis) == AsI64(EMul(At(Unwrap(bounding_box(obj)).start, axis), F(100000)))

\* the place (1-based) of element i after a stable sort by keys
SortedPlace(keys, i) ==
    1 + Cardinality({j \in 1..Len(keys) : keys[j] < keys[i] \/ (keys[j] = keys[i] /\ j < i)})

\* sort_by_cached_key: a stable sort by the keys (one key per element)
SortByCachedKey(objs, keys) ==
    [p \in 1..Len(objs) |-> objs[CHOOSE i \in 1..Len(objs) : SortedPlace(keys, i) = p]]

\* the orders the sort of create_hierarchy can leave objs in: one axis draw
\* per element
SortedOrders(objs) ==
    { SortByCachedKey(objs, [i \in 1..Len(objs) |-> SortKey(objs[i], ax[i])]) :
        ax \in [1..Len(objs) -> 0..2] }

\* a split that sends the middle element of an odd list left as well
SplitLhs_ceil(objs) == SubSeq(objs, 1, (Len(objs) + 1) \div 2)

\* a split that never pushes the last element
SplitRhs_drop_last(objs) == SubSeq(objs, (Len(objs) \div 2) + 1, Len(objs) - 1)

\* the lhs / rhs split: index i (0-based) goes left iff i < N / 2
SplitLhs(objs) == SubSeq(objs, 1, Len(objs) \div 2)

SplitRhs(objs) == SubSeq(objs, (Len(objs) \div 2) + 1, Len(objs))

\* Self::new(vec![lhs, rhs]); a panic in a recursive call unwinds
JoinHalves(l, r) == IF IsPanic(l) \/ IsPanic(r) THEN Panic ELSE ObjectGroup_new(<<l, r>>)

RECURSIVE create_hierarchy(_)
\* the set of results of ObjectGroup::create_hierarchy(objs), over the draws
\* of the random axes
create_hierarchy(objs) ==
    IF Len(objs) <= 2 THEN {ObjectGroup_new(objs)}
    ELSE UNION { { JoinHalves(l, r) : l \in create_hierarchy(SplitLhs(sorted)),
                                      r \in create_hierarchy(SplitRhs(sorted)) } :
                 sorted \in SortedOrders(objs) }

(***************************************************************************)
(* Color (main.rs) and materials (material.rs)                             *)
(***************************************************************************)
Color_of_rgb(r, g, b) == <<r, g, b>>

Color_black == Color_of_rgb(F(0), F(0), F(0))

Color_white == Color_of_rgb(F(1), F(1), F(1))

Color_mult_(c1, c2) == <<EMul(c1[1], c2[1]), EMul(c1[2], c2[2]), EMul(c1[3], c2[3])>>

Lambert(albedo) == [type |-> "Lambert", albedo |-> albedo, fuzz |-> F(0)]

Metal(albedo, fuzz) == [type |-> "Metal", albedo |-> albedo, fuzz |-> fuzz]

\* the emissive material: its colour is kept in the albedo field
DiffuseLight(col) == [type |-> "DiffuseLight", albedo |-> col, fuzz |-> F(0)]

\* if dir.is_zero() { dir = hit.normal }
Lambert_dir(d, normal) == IF Vec3_is_zero(d) THEN normal ELSE d

Lambert_scatter(mat, ray, h, v) ==
    Some(<<mat.albedo,
           Ray_new(h.point, Lambert_dir(Vec3_rand_in_hemisphere(h.normal, v), h.normal))>>)

Metal_scatter(mat, ray, h, v) ==
    Some(<<mat.albedo,
           Ray_new(h.point, Vec3_add(Vec3_reflect(ray.dir, h.normal), Vec3_mul(v, mat.fuzz)))>>)

\* the emissive material never scatters
DiffuseLight_scatter(mat, ray, h, v) == None

\* Material::scatter by dynamic dispatch; v is the random vector it draws
Material_scatter(mat, ray, h, v) ==
    CASE mat.type = "Lambert" -> Lambert_scatter(mat, ray, h, v)
      [] mat.type = "Metal"   -> Metal_scatter(mat, ray, h, v)
      [] mat.type = "DiffuseLight" -> DiffuseLight_scatter(mat, ray, h, v)

\* Material::emit: the light's colour, black for every other material
Material_emit(mat, ray, h) ==
    IF mat.type = "DiffuseLight" THEN mat.albedo ELSE Color_black

(***************************************************************************)
(* The inputs: primitives, scenes, rays                                    *)
(***************************************************************************)
\* most primitives a scene holds
MaxPrims == 4

\* the largest max_depth a top-level color_of_ray is called with
MaxDepth == 3

V(x, y, z) == <<F(x), F(y), F(z)>>

Sphere(center, r, color, mat) ==
    [kind |-> "Sphere", center |-> center, r |-> r, color |-> color, mat |-> mat]

Rect(p0, p1, k, axis, mat) ==
    [kind |-> "Rect", p0 |-> p0, p1 |-> p1, k |-> k, axis |-> axis, mat |-> mat]

FlipFace(obj) == [kind |-> "FlipFace", obj |-> obj]

Grey == Lambert(Color_of_rgb(Mk(1, 2), Mk(1, 2), Mk(1, 2)))

Mirror == Metal(Color_of_rgb(Mk(4, 5), Mk(4, 5), Mk(4, 5)), F(0))

Lamp == DiffuseLight(Color_of_rgb(F(4), F(4), F(4)))

\* a floor in the plane z = 0
Floor == Rect(<<F(-10), F(10)>>, <<F(-10), F(10)>>, F(0), "XY", Grey)

\* an emissive ball and a mirror ball, both cut by the plane of the floor
LampBall == Sphere(V(5, 0, 0), F(2), V(1, 0, 1), Lamp)

MirrorBall == Sphere(V(-5, 0, 0), Mk(1, 2), V(0, 1, 1), Mirror)

\* a side wall in the plane x = -10
Wall == Rect(<<F(-10), F(10)>>, <<F(-5), F(10)>>, F(-10), "YZ", Grey)

\* a one-sided ceiling light, seen from below
CeilingLight == FlipFace(Rect(<<F(-3), F(3)>>, <<F(-3), F(3)>>, F(10), "XY", Lamp))

World == <<Floor, LampBall, Wall, CeilingLight, MirrorBall>>

\* the longest list taken from World
SceneLen == IF MaxPrims < Len(World) THEN MaxPrims ELSE Len(World)

\* the primitive lists handed to create_hierarchy: the heads and the tails of World
Scenes ==
    { SubSeq(World, 1, n) : n \in 0..SceneLen } \cup
    { SubSeq(World, Len(World) - n + 1, Len(World)) : n \in 1..SceneLen }

\* the sky colour passed as infinity_color
Sky == Color_of_rgb(Mk(2, 5), Mk(2, 5), F(1))

\* camera rays: Ray::new(origin, dir)
CameraRays ==
    { Ray_new(o, d) : o \in {V(0, 0, 8), V(0, 0, 0)},
                      d \in {V(0, 0, -1), V(0, 0, 1), V(1, 0, 0), V(-1, 0, 0), V(-3, 0, -4)} }

\* the vectors rand_in_unit_circle is taken to draw
RandVecs == { <<F(0), F(0), Mk(1, 2)>>, <<Mk(1, 2), F(0), F(0)>>, <<Mk(3, 10), F(0), Mk(-2, 5)>> }

(***************************************************************************)
(* State                                                                   *)
(***************************************************************************)
VARIABLES
    objects,    \* the primitive list handed to ObjectGroup::create_hierarchy
    scene,      \* Scene.objects: <<root>> once built, <<>> before
    pc,         \* "build", "ready", "panicked", "call", "ret", "done"
    calls,      \* the frames of color_of_ray, outermost first; a frame is kept
                \* (with its result) after it returned
    sp,         \* the index in calls of the running frame, 0 when none
    clip,       \* one call of AABB::hit: its arguments and its result
    flip,       \* one call of FlipFace::hit and FlipFace::bounding_box
    rows,       \* main: the state of each row task, "todo", "line" or "done"
    lines,      \* main: the Vec each row task collected
    lines_complete,     \* main: the AtomicI64 counter
    color_for_pixels,   \* main: the Vec the parallel iterator is collected into
    img,        \* main: Image.buffer, indexed [y][x]
    rpc         \* main: "idle", "par", "write", "done", "panicked"

tracer == <<objects, scene, pc, calls, sp>>

renderer == <<rows, lines, lines_complete, color_for_pixels, img, rpc>>

vars == <<objects, scene, pc, calls, sp, clip, flip, rows, lines, lines_complete, color_for_pixels, img, rpc>>

\* nothing of the ray tracer is running
TracerIdle == objects = <<>> /\ scene = <<>> /\ pc = "idle" /\ calls = <<>> /\ sp = 0

ClipIdle == clip = <<>>

FlipIdle == flip = <<>>

RenderIdle ==
    /\ rows = <<>> /\ lines = <<>> /\ lines_complete = 0
    /\ color_for_pixels = <<>> /\ img = <<>> /\ rpc = "idle"

Frame(ray, max_depth) ==
    [ray |-> ray, max_depth |-> max_depth, attenuation |-> None, result |-> None]

Init ==
    /\ objects \in Scenes
    /\ scene = <<>>
    /\ pc = "build"
    /\ calls = <<>>
    /\ sp = 0
    /\ ClipIdle
    /\ FlipIdle
    /\ RenderIdle

\* the outcome of create_hierarchy: a panic ends the program
Built(root) ==
    IF IsPanic(root)
    THEN pc' = "panicked" /\ scene' = <<>>
    ELSE pc' = "ready" /\ scene' = <<root>>

\* main.rs:475: the scene is one group built by create_hierarchy
Build ==
    /\ pc = "build"
    /\ \E root \in create_hierarchy(objects) : Built(root)
    /\ UNCHANGED <<objects, calls, sp, clip, flip, renderer>>

(***************************************************************************)
(* Scene::color_of_ray (main.rs)                                           *)
(***************************************************************************)
\* the hit record the fold of color_of_ray starts from
infinity_hit(infinity_color) ==
    RayHit(infinity_color, Vec3_empty, PInf, Vec3_empty, TRUE,
           Lambert(Color_of_rgb(Mk(1, 2), Mk(1, 2), Mk(1, 2))))

\* the closure of the fold: if let Some(hit) = obj.hit(&ray) { if hit.t < acc.t ... }
ClosestStep(acc, h) == IF IsSome(h) /\ ELt(Unwrap(h).t, acc.t) THEN Unwrap(h) ELSE acc

RECURSIVE FoldClosest(_, _, _, _)
\* the fold over self.objects
FoldClosest(objs, ray, i, acc) ==
    IF i > Len(objs) THEN acc
    ELSE FoldClosest(objs, ray, i + 1, ClosestStep(acc, hit(objs[i], ray)))

closest_hit(objs, ray, infinity_color) == FoldClosest(objs, ray, 1, infinity_hit(infinity_color))

\* the depth test at the head of color_of_ray
DepthExhausted(max_depth) == max_depth <= 0

\* the depth passed on without the decrement
NextDepth_same(max_depth) == max_depth

\* the depth passed to the recursive call
NextDepth(max_depth) == max_depth - 1

\* the value returned when the material does not scatter
NoScatterColor(emitted) == emitted

\* the value returned after the recursive call came back with `inner`
ScatterColor(inner, attenuation) == Color_mult_(inner, attenuation)

\* a top-level call of color_of_ray (main.rs:501)
Cast ==
    /\ pc = "ready"
    /\ \E r \in CameraRays, d \in (-1)..MaxDepth : calls' = <<Frame(r, d)>>
    /\ sp' = 1
    /\ pc' = "call"
    /\ UNCHANGED <<objects, scene, clip, flip, renderer>>

\* `return c` of the running frame
ReturnWith(c) ==
    /\ calls' = [calls EXCEPT ![sp].result = Some(c)]
    /\ pc' = "ret"
    /\ sp' = sp

\* self.color_of_ray(&bounce, max_depth - 1, infinity_color)
Recurse(attenuation, bounce, max_depth) ==
    /\ calls' = Append([calls EXCEPT ![sp].attenuation = Some(attenuation)],
                       Frame(bounce, NextDepth(max_depth)))
    /\ sp' = sp + 1
    /\ pc' = "call"

\* if let Some((attenuation, bounce)) = mat.scatter(..) { recurse } else { emitted }
CallScatter(f, emitted, sc) ==
    IF IsSome(sc) THEN Recurse(Unwrap(sc)[1], Unwrap(sc)[2], f.max_depth)
    ELSE ReturnWith(NoScatterColor(emitted))

CallHit(f, ch) ==
    IF EEq(ch.t, PInf) THEN ReturnWith(ch.col)
    ELSE \E v \in RandVecs :
            CallScatter(f, Material_emit(ch.mat, f.ray, ch), Material_scatter(ch.mat, f.ray, ch, v))

CallFrame(f) ==
    IF DepthExhausted(f.max_depth) THEN ReturnWith(Color_black)
    ELSE CallHit(f, closest_hit(scene, f.ray, Sky))

\* the body of color_of_ray from its entry to its return or to the recursive call
Call ==
    /\ pc = "call"
    /\ CallFrame(calls[sp])
    /\ UNCHANGED <<objects, scene, clip, flip, renderer>>

\* the recursive call returns: the caller multiplies by its attenuation and returns
Return ==
    /\ pc = "ret"
    /\ sp > 1
    /\ calls' = [calls EXCEPT ![sp - 1].result =
                    Some(ScatterColor(Unwrap(calls[sp].result), Unwrap(calls[sp - 1].attenuation)))]
    /\ sp' = sp - 1
    /\ pc' = "ret"
    /\ UNCHANGED <<objects, scene, clip, flip, renderer>>

\* the top-level call returns to main
Finish ==
    /\ pc = "ret"
    /\ sp = 1
    /\ pc' = "done"
    /\ sp' = 0
    /\ UNCHANGED <<objects, scene, calls, clip, flip, renderer>>

Next == Build \/ Cast \/ Call \/ Return \/ Finish

Spec == Init /\ [][Next]_vars

(***************************************************************************)
(* Properties of Scene::color_of_ray                                       *)
(***************************************************************************)
Frames == 1..Len(calls)

Returned(i) == IsSome(calls[i].result)

ResultOf(i) == Unwrap(calls[i].result)

\* t lies in the window [T_MIN, T_MAX]
InRange(t) == ELe(T_MIN, t) /\ ELe(t, T_MAX)

\* the hits of a linear scan of the primitive list that lie in the window
RefHits(r) ==
    { Unwrap(hit(objects[i], r)) :
        i \in { j \in 1..Len(objects) :
                  IsSome(hit(objects[j], r)) /\ InRange(Unwrap(hit(objects[j], r)).t) } }

\* the closest of them
RefClosest(r) == { h \in RefHits(r) : \A g \in RefHits(r) : ELe(h.t, g.t) }

\* the material of hit h scatters the ray
Scatters(h, r) == \E v \in RandVecs : IsSome(Material_scatter(h.mat, r, h, v))

RefMult(a, c) == <<EMul(a[1], c[1]), EMul(a[2], c[2]), EMul(a[3], c[3])>>

\* frame i + 1 is the recursive call on the scattered ray sc[2], and frame i
\* returned the attenuation sc[1] times its result
RefScatterWith(i, sc) ==
    /\ calls[i + 1].ray = sc[2]
    /\ Returned(i + 1)
    /\ ResultOf(i) = RefMult(sc[1], ResultOf(i + 1))

RefScatter(i, h) ==
    /\ i < Len(calls)
    /\ calls[i + 1].max_depth = calls[i].max_depth - 1
    /\ \E v \in RandVecs :
          RefScatterWith(i, Unwrap(Material_scatter(h.mat, calls[i].ray, h, v)))

\* frame i made no recursive call and returned colour c
RefLeaf(i, c) == i = Len(calls) /\ ResultOf(i) = c

\* the reference recursion, for the returned frame i
RefColor(i) ==
    IF calls[i].max_depth <= 0 THEN RefLeaf(i, Color_black)
    ELSE IF RefClosest(calls[i].ray) = {} THEN RefLeaf(i, Sky)
    ELSE \E h \in RefClosest(calls[i].ray) :
            Scatters(h, calls[i].ray) => RefScatter(i, h)

\* C1: every call of color_of_ray returns what the reference recursion gives:
\* black when max_depth <= 0, the background when no primitive is hit inside
\* the window, and the attenuation times the result of the recursive call at
\* max_depth - 1 when the closest hit is on a scattering surface (nothing
\* emitted is added to it).
C1_ColorOfRayIsReference == \A i \in Frames : Returned(i) => RefColor(i)

\* some primitive answers the ray with a hit whose t is outside the window
OffWindowHit(r) ==
    \E j \in 1..Len(objects) : IsSome(hit(objects[j], r)) /\ ~InRange(Unwrap(hit(objects[j], r)).t)

\* the reference recursion is followed by every call whose ray draws no
\* off-window hit from any primitive
ColorOfRayIsReferenceInWindow ==
    \A i \in Frames : Returned(i) /\ ~OffWindowHit(calls[i].ray) => RefColor(i)

\* frame i, called with max_depth >= 1 on a ray that has a closest hit,
\* returned the background without recursing
HitLost(i) ==
    /\ Returned(i) /\ calls[i].max_depth >= 1
    /\ RefClosest(calls[i].ray) # {}
    /\ RefLeaf(i, Sky)

\* a call whose ray has its closest hit on a scattering surface returned the
\* background
C1_ScatteringHitLost ==
    \E i \in Frames : HitLost(i) /\ \A h \in RefClosest(calls[i].ray) : Scatters(h, calls[i].ray)

RefEmit(i, h) == RefLeaf(i, Material_emit(h.mat, calls[i].ray, h))

\* hit h is on a light: no scatter, a non-black emitted colour
Emissive(h, r) == ~Scatters(h, r) /\ Material_emit(h.mat, r, h) # Color_black

\* C2: a call with max_depth >= 1 whose ray has its closest hit on an emissive
\* surface returns exactly the emitted colour and makes no recursive call.
C2_EmissiveHitReturnsEmitted ==
    \A i \in Frames :
        Returned(i) /\ calls[i].max_depth >= 1 =>
            \A h \in RefClosest(calls[i].ray) : Emissive(h, calls[i].ray) => RefEmit(i, h)

EmissiveHitReturnsEmittedInWindow ==
    \A i \in Frames :
        Returned(i) /\ calls[i].max_depth >= 1 /\ ~OffWindowHit(calls[i].ray) =>
            \A h \in RefClosest(calls[i].ray) : Emissive(h, calls[i].ray) => RefEmit(i, h)

\* a call whose ray has its closest hit on a light returned the background
C2_EmissiveHitLost ==
    \E i \in Frames : HitLost(i) /\ \A h \in RefClosest(calls[i].ray) : Emissive(h, calls[i].ray)

\* an upper bound on the steps left before the program stops
Variant ==
    CASE pc = "build" -> 2 * MaxDepth + 4
      [] pc = "ready" -> 2 * MaxDepth + 3
      [] pc = "call"  -> 2 * (IF calls[sp].max_depth > 0 THEN calls[sp].max_depth ELSE 0) + sp + 1
      [] pc = "ret"   -> sp
      [] OTHER        -> 0

\* the number of nested recursive calls the top-level call has made
ChainLength == Len(calls) - 1

\* the chain is at most the top-level max_depth long (empty when that is <= 0),
\* each nested call got its caller's max_depth - 1, and a call with
\* max_depth <= 0 made no call
ChainBounded ==
    /\ calls # <<>> => ChainLength <= (IF calls[1].max_depth > 0 THEN calls[1].max_depth ELSE 0)
    /\ \A i \in Frames : i > 1 => calls[i].max_depth = calls[i - 1].max_depth - 1
    /\ \A i \in Frames : calls[i].max_depth <= 0 => i = Len(calls)

\* C3: color_of_ray terminates for every max_depth, whatever the surfaces do:
\* every step lowers a natural-number bound on the steps left, the chain of
\* nested calls is never longer than max_depth, each recursive call passes
\* max_depth - 1, and a call with max_depth <= 0 makes no further call.
C3_RecursionBounded == [][Variant' < Variant /\ Variant' >= 0 /\ ChainBounded']_vars

\* a top-level call at the largest depth whose every surface scattered: the
\* chain ran down to max_depth 0 and the call came back
C3_DepthExhausted ==
    /\ pc = "done"
    /\ calls[1].max_depth = MaxDepth
    /\ ChainLength = MaxDepth
    /\ calls[Len(calls)].max_depth = 0

(***************************************************************************)
(* Properties of the hierarchy                                             *)
(***************************************************************************)
RECURSIVE Groups(_)
\* the group nodes of the tree under node
Groups(node) ==
    IF node.kind = "ObjectGroup"
    THEN {node} \cup UNION { Groups(node.objs[i]) : i \in 1..Len(node.objs) }
    ELSE {}

\* box outer contains box inner
Contains(outer, inner) ==
    \A a \in 0..2 :
        /\ ELe(At(outer.start, a), At(inner.start, a))
        /\ ELe(At(inner.end, a), At(outer.end, a))

MembersInside(g) ==
    \A i \in 1..Len(g.objs) : Contains(g.bb, Unwrap(bounding_box(g.objs[i])))

\* C4: the box stored in every group node of a built hierarchy contains the
\* bounding box of each of its direct members, so the root's box contains the
\* box of every primitive of the list.
C4_GroupBoxContainsMembers ==
    scene # <<>> =>
        /\ \A g \in Groups(scene[1]) : MembersInside(g)
        /\ \A i \in 1..Len(objects) : Contains(scene[1].bb, Unwrap(bounding_box(objects[i])))

\* a hierarchy with inner groups was built
C4_NestedGroupsBuilt ==
    /\ scene # <<>>
    /\ Len(objects) >= 3
    /\ \E i \in 1..Len(scene[1].objs) : scene[1].objs[i].kind = "ObjectGroup"

\* C7: create_hierarchy on an empty list ends in a panic at construction and
\* never yields a group.
C7_EmptyListPanics ==
    /\ objects = <<>> /\ pc # "build" => pc = "panicked"
    /\ objects = <<>> => scene = <<>>
    /\ pc = "panicked" => objects = <<>>

\* the construction from the empty list has panicked
C7_PanickedOnEmpty == pc = "panicked" /\ objects = <<>> /\ scene = <<>>

(***************************************************************************)
(* Properties of Object::hit, for the ray of the latest call               *)
(***************************************************************************)
LastRay == calls[Len(calls)].ray

\* a hierarchy is built and a ray is under way
Tracing == calls # <<>> /\ scene # <<>>

\* the hits of the direct children of group g
ChildHits(g, r) == { hit(g.objs[i], r) : i \in 1..Len(g.objs) } \ {None}

\* the hits of a linear scan of the primitive list
PrimHits(r) == { hit(objects[i], r) : i \in 1..Len(objects) } \ {None}

\* res is the smallest-t member of hits, and None only when hits is empty
ClosestOf(hits, res) ==
    IF hits = {} THEN res = None
    ELSE res \in hits /\ \A c \in hits : ELe(Unwrap(res).t, Unwrap(c).t)

GroupHitsClosest(r) ==
    /\ \A g \in Groups(scene[1]) : ClosestOf(ChildHits(g, r), hit(g, r))
    /\ ClosestOf(PrimHits(r), hit(scene[1], r))

\* C5: ObjectGroup::hit returns the smallest-t hit among the hits of its direct
\* children and none only when no child hits; the root of a built hierarchy
\* returns the closest hit of a linear scan over all primitives, so the
\* bounding-box rejection never discards a ray that a member would hit.
C5_GroupHitIsClosestChildHit == Tracing => GroupHitsClosest(LastRay)

\* the same, for the rays that draw no off-window hit from any primitive
GroupHitIsClosestInWindow == Tracing /\ ~OffWindowHit(LastRay) => GroupHitsClosest(LastRay)

\* the root returns an off-window hit, or none, while a primitive of the list
\* has a hit inside the window
C5_ValidHitShadowed ==
    /\ Tracing
    /\ RefHits(LastRay) # {}
    /\ hit(scene[1], LastRay) \notin { Some(h) : h \in RefHits(LastRay) }

RECURSIVE Nodes(_)
\* every object of the tree under node: groups, primitives, wrapped primitives
Nodes(node) ==
    {node} \cup
    CASE node.kind = "ObjectGroup" -> UNION { Nodes(node.objs[i]) : i \in 1..Len(node.objs) }
      [] node.kind = "FlipFace"    -> Nodes(node.obj)
      [] OTHER                     -> {}

\* C8: every hit record produced by a Sphere, Rect, FlipFace or ObjectGroup has
\* T_MIN <= t <= T_MAX, also for a ray with a zero direction component along a
\* Rect's perpendicular axis and for a ray whose origin lies in the Rect's plane.
C8_HitsInsideWindow ==
    Tracing =>
        \A n \in Nodes(scene[1]) :
            IsSome(hit(n, LastRay)) => InRange(Unwrap(hit(n, LastRay)).t)

\* the only hits outside the window are those with t = NaN
HitsInsideWindowOrNaN ==
    Tracing =>
        \A n \in Nodes(scene[1]) :
            IsSome(hit(n, LastRay)) =>
                InRange(Unwrap(hit(n, LastRay)).t) \/ IsNaN(Unwrap(hit(n, LastRay)).t)

\* ray r lies in the plane of rect: no direction along the perpendicular axis
\* and an origin in the plane
InPlane(rect, r) ==
    /\ IsZero(At(r.dir, Rect_axis(rect)[1]))
    /\ EEq(At(r.origin, Rect_axis(rect)[1]), rect.k)

\* a Rect answered a ray lying in its plane with a hit at t = NaN
C8_NaNHitInPlane ==
    /\ Tracing
    /\ \E n \in Nodes(scene[1]) :
          /\ n.kind = "Rect" /\ InPlane(n, LastRay)
          /\ IsSome(hit(n, LastRay)) /\ IsNaN(Unwrap(hit(n, LastRay)).t)

\* the returned normal is the geometric outward normal, not its negation
Outward(n, h) ==
    IF n.kind = "Sphere"
    THEN EGt(Vec3_dot(h.normal, Vec3_sub(h.point, n.center)), F(0))
    ELSE EGt(At(h.normal, Rect_axis(n)[1]), F(0))

FaceAgainstRay(h, r) == ELe(Vec3_dot(h.normal, r.dir), F(0))

FaceOf(n, r, h) == FaceAgainstRay(h, r) /\ (h.front_face <=> Outward(n, h))

Solids(root) == { n \in Nodes(root) : n.kind \in {"Sphere", "Rect"} }

\* C9: for every hit of Sphere::hit and Rect::hit the returned normal has a
\* non-positive dot product with the ray direction, and front_face is true
\* exactly when the geometric outward normal was not negated.
C9_NormalOpposesRay ==
    Tracing =>
        \A n \in Solids(scene[1]) :
            IsSome(hit(n, LastRay)) => FaceOf(n, LastRay, Unwrap(hit(n, LastRay)))

\* what the code does: the normal opposes the ray for both; front_face of a
\* Sphere is true exactly when the normal was kept, front_face of a Rect is
\* true exactly when the normal was negated
FaceAsCoded(n, r, h) ==
    /\ FaceAgainstRay(h, r)
    /\ h.front_face <=> (IF n.kind = "Sphere" THEN Outward(n, h) ELSE ~Outward(n, h))

NormalOpposesRayAsCoded ==
    Tracing =>
        \A n \in Solids(scene[1]) :
            IsSome(hit(n, LastRay)) => FaceAsCoded(n, LastRay, Unwrap(hit(n, LastRay)))

\* a Rect hit off its plane whose normal was kept and whose front_face is false
C9_RectFrontFaceInverted ==
    /\ Tracing
    /\ \E n \in Solids(scene[1]) :
          /\ n.kind = "Rect" /\ ~InPlane(n, LastRay)
          /\ IsSome(hit(n, LastRay))
          /\ Outward(n, Unwrap(hit(n, LastRay)))
          /\ ~Unwrap(hit(n, LastRay)).front_face

(***************************************************************************)
(* AABB::hit on its own: one call, on a box, a ray and a window            *)
(***************************************************************************)
\* the largest coordinate of a ray origin
ClipCoord == 1

\* the unit box and a flat box
ClipBoxes == { AABB_new(V(0, 0, 0), V(1, 1, 1)), AABB_new(V(0, 0, 0), V(1, 1, 0)) }

ClipOrigins ==
    { V(x, y, z) : x \in (-ClipCoord)..ClipCoord, y \in (-ClipCoord)..ClipCoord,
                   z \in (-ClipCoord)..ClipCoord }

\* directions with one, two and no zero component
ClipAxes == { V(1, 0, 0), V(0, 1, 0), V(0, 0, 1), V(3, 4, 0), V(0, 3, -4), V(-4, 0, 3), V(2, -2, 1) }

\* and their negations, whose zero components are -0.0
ClipDirs == ClipAxes \cup { Vec3_neg(d) : d \in ClipAxes }

ClipRays == { Ray_new(o, d) : o \in ClipOrigins, d \in ClipDirs }

\* the window of ObjectGroup::hit, a short one and an empty one
ClipWindows == { <<T_MIN, T_MAX>>, <<F(0), F(1)>>, <<F(2), F(1)>> }

ClipCall(bb, r, w) == [bb |-> bb, ray |-> r, t_min |-> w[1], t_max |-> w[2], out |-> None]

InitClip ==
    /\ TracerIdle
    /\ FlipIdle
    /\ RenderIdle
    /\ clip \in { ClipCall(bb, r, w) : bb \in ClipBoxes, r \in ClipRays, w \in ClipWindows }

\* bb.hit(&ray, t_min, t_max)
Clip ==
    /\ clip # <<>>
    /\ clip.out = None
    /\ clip' = [clip EXCEPT !.out = Some(AABB_hit(clip.bb, clip.ray, clip.t_min, clip.t_max))]
    /\ UNCHANGED <<tracer, flip, renderer>>

NextClip == Clip

SpecClip == InitClip /\ [][NextClip]_vars

\* the parameters t with lo <= o + t * d <= hi, as <<first, last>>; <<>> when
\* there is none
RefSlab(lo, hi, o, d) ==
    IF IsZero(d) THEN (IF ELe(lo, o) /\ ELe(o, hi) THEN <<NInf, PInf>> ELSE <<>>)
    ELSE IF EGt(d, F(0)) THEN <<EDiv(ESub(lo, o), d), EDiv(ESub(hi, o), d)>>
    ELSE <<EDiv(ESub(hi, o), d), EDiv(ESub(lo, o), d)>>

RefSlabOf(bb, r, a) == RefSlab(At(bb.start, a), At(bb.end, a), At(r.origin, a), At(r.dir, a))

\* the intersection of two parameter intervals
RefMeet(w, s) ==
    IF w = <<>> \/ s = <<>> THEN <<>>
    ELSE << IF EGt(s[1], w[1]) THEN s[1] ELSE w[1], IF ELt(s[2], w[2]) THEN s[2] ELSE w[2] >>

\* the window clipped against the six planes of the box
RefClip(bb, r, t_min, t_max) ==
    RefMeet(RefMeet(RefMeet(<<t_min, t_max>>, RefSlabOf(bb, r, 0)), RefSlabOf(bb, r, 1)),
            RefSlabOf(bb, r, 2))

RefNonEmpty(w) == w # <<>> /\ EGt(w[2], w[1])

\* C10: AABB::hit returns true exactly when the clip of the ray against the six
\* planes of the box leaves t_max > t_min, also for the rays with a zero
\* direction component on one or more axes.
C10_SlabTestIsSixPlaneClip ==
    clip # <<>> /\ IsSome(clip.out) =>
        (Unwrap(clip.out) <=> RefNonEmpty(RefClip(clip.bb, clip.ray, clip.t_min, clip.t_max)))

\* a ray with a zero direction component on an axis where its origin is on
\* the face of the box (0 * infinity in the slab test) was found to hit
C10_ZeroComponentOnFaceHits ==
    /\ clip # <<>>
    /\ clip.out = Some(TRUE)
    /\ \E a \in 0..2 :
          /\ IsZero(At(clip.ray.dir, a))
          /\ EEq(At(clip.ray.origin, a), At(clip.bb.start, a))

(***************************************************************************)
(* The parallel render of main (main.rs)                                   *)
(***************************************************************************)
VIEWPORT_WIDTH == 3

VIEWPORT_HEIGHT == 4

Columns == 0..(VIEWPORT_WIDTH - 1)

Lines == 0..(VIEWPORT_HEIGHT - 1)

\* Image::new: vec![vec![Color::black(); width]; height]
Image_new(width, height) == [y \in 0..(height - 1) |-> [x \in 0..(width - 1) |-> Color_black]]

\* Image::color with the two indices exchanged
Image_color_transposed(buffer, x, y, col) == [buffer EXCEPT ![x][y] = col]

\* Image::color: self.buffer[y][x] = col
Image_color(buffer, x, y, col) == [buffer EXCEPT ![y][x] = col]

\* the colour the samples of pixel (x, y) come to; one colour per pixel, none black
PixelColor(x, y) == Color_of_rgb(Mk(x + 1, VIEWPORT_WIDTH + 1), Mk(y + 1, VIEWPORT_HEIGHT + 1), F(1))

\* the Vec a row task collects: (x, y, color) for x in 0..VIEWPORT_WIDTH
Line(y) == [i \in 1..VIEWPORT_WIDTH |-> <<i - 1, y, PixelColor(i - 1, y)>>]

RECURSIVE FlatMap(_, _)
\* the rows' Vecs in the order of the range, from row y on
FlatMap(ls, y) == IF y >= VIEWPORT_HEIGHT THEN <<>> ELSE ls[y] \o FlatMap(ls, y + 1)

\* a row task: not started, its line collected, or finished with the value
\* fetch_add returned to it
Todo == [st |-> "todo", n |-> -1]

Collected == [st |-> "line", n |-> -1]

Finished(n) == [st |-> "done", n |-> n]

InitRender ==
    /\ TracerIdle
    /\ ClipIdle
    /\ FlipIdle
    /\ rows = [y \in Lines |-> Todo]
    /\ lines = [y \in Lines |-> <<>>]
    /\ lines_complete = 0
    /\ color_for_pixels = <<>>
    /\ img = Image_new(VIEWPORT_WIDTH, VIEWPORT_HEIGHT)
    /\ rpc = "par"

\* a worker runs the closure of flat_map for row y up to the collect of its line
RenderLine ==
    /\ rpc = "par"
    /\ \E y \in Lines :
          /\ rows[y] = Todo
          /\ rows' = [rows EXCEPT ![y] = Collected]
          /\ lines' = [lines EXCEPT ![y] = Line(y)]
    /\ UNCHANGED <<tracer, clip, flip, lines_complete, color_for_pixels, img, rpc>>

\* a row that reads the counter with a load and adds nothing
CountLine_load_only ==
    /\ rpc = "par"
    /\ \E y \in Lines :
          /\ rows[y] = Collected
          /\ rows' = [rows EXCEPT ![y] = Finished(lines_complete)]
    /\ UNCHANGED <<tracer, clip, flip, lines, lines_complete, color_for_pixels, img, rpc>>

\* lines_complete.fetch_add(1, SeqCst), and the closure returns its line
CountLine ==
    /\ rpc = "par"
    /\ \E y \in Lines :
          /\ rows[y] = Collected
          /\ rows' = [rows EXCEPT ![y] = Finished(lines_complete)]
    /\ lines_complete' = lines_complete + 1
    /\ UNCHANGED <<tracer, clip, flip, lines, color_for_pixels, img, rpc>>

\* .collect::<Vec<_>>() of the parallel iterator, once every row task is over
Collect ==
    /\ rpc = "par"
    /\ \A y \in Lines : rows[y].st = "done"
    /\ color_for_pixels' = FlatMap(lines, 0)
    /\ rpc' = "write"
    /\ UNCHANGED <<tracer, clip, flip, rows, lines, lines_complete, img>>

\* one turn of: for (x, y, col) in color_for_pixels { img.color(x, y, col) }
WritePixel ==
    /\ rpc = "write"
    /\ color_for_pixels # <<>>
    /\ img' = Image_color(img, Head(color_for_pixels)[1], Head(color_for_pixels)[2],
                          Head(color_for_pixels)[3])
    /\ color_for_pixels' = Tail(color_for_pixels)
    /\ UNCHANGED <<tracer, clip, flip, rows, lines, lines_complete, rpc>>

\* the loop is over: img.to_ppm
WriteImage ==
    /\ rpc = "write"
    /\ color_for_pixels = <<>>
    /\ rpc' = "done"
    /\ UNCHANGED <<tracer, clip, flip, rows, lines, lines_complete, color_for_pixels, img>>

NextRender == RenderLine \/ CountLine \/ Collect \/ WritePixel \/ WriteImage

SpecRender == InitRender /\ [][NextRender]_vars

\* the places of the tuples for pixel (x, y) in a Vec of tuples
TuplesFor(vec, x, y) == { k \in 1..Len(vec) : vec[k][1] = x /\ vec[k][2] = y }

\* the line of row y holds one tuple for each pixel of the row, with the
\* pixel's colour, and nothing else
LineComplete(y) ==
    /\ Len(lines[y]) = VIEWPORT_WIDTH
    /\ \A k \in 1..Len(lines[y]) : lines[y][k][1] \in Columns /\ lines[y][k][2] = y
    /\ \A x \in Columns : \E k \in 1..Len(lines[y]) : lines[y][k] = <<x, y, PixelColor(x, y)>>

\* pixel (x, y) is either still to be written, by exactly one tuple that holds
\* its colour, its cell being untouched, or written: its cell holds its colour
\* and no tuple for it is left
PixelOnce(x, y) ==
    \/ /\ Cardinality(TuplesFor(color_for_pixels, x, y)) = 1
       /\ \A k \in TuplesFor(color_for_pixels, x, y) : color_for_pixels[k][3] = PixelColor(x, y)
       /\ img[y][x] = Color_black
    \/ /\ TuplesFor(color_for_pixels, x, y) = {}
       /\ img[y][x] = PixelColor(x, y)

\* C6: whatever the order in which the row tasks run and complete, every pixel
\* (x, y) of the image is produced exactly once and its colour is stored at
\* buffer[y][x] and nowhere else: no row is lost, doubled or stored in the
\* place of another.
C6_EveryPixelStoredOnce ==
    /\ rpc = "par" => \A y \in Lines : rows[y] # Todo => LineComplete(y)
    /\ rpc \in {"write", "done"} =>
          /\ \A k \in 1..Len(color_for_pixels) :
                color_for_pixels[k][1] \in Columns /\ color_for_pixels[k][2] \in Lines
          /\ \A x \in Columns, y \in Lines : PixelOnce(x, y)
    /\ rpc = "done" => \A x \in Columns, y \in Lines : img[y][x] = PixelColor(x, y)

\* the image is written although the first row completed last and the last first
C6_WrittenAfterReverseCompletion ==
    /\ rpc = "done"
    /\ rows[0].n = VIEWPORT_HEIGHT - 1
    /\ rows[VIEWPORT_HEIGHT - 1].n = 0
    /\ \A x \in Columns, y \in Lines : img[y][x] = PixelColor(x, y)


(***************************************************************************)
(* ObjectGroup::create_hierarchy: the axis of the sort (object.rs 43-70)   *)
(***************************************************************************)

\* the orders a call can produce when one axis keys all its primitives
SingleAxisOrders(objs) ==
    { SortByCachedKey(objs, [i \in 1..Len(objs) |-> SortKey(objs[i], axis)]) : axis \in 0..2 }

\* the trees of a build that draws one axis for each call
RECURSIVE SingleAxisHierarchy(_)
SingleAxisHierarchy(objs) ==
    IF Len(objs) <= 2
    THEN {ObjectGroup_new(objs)}
    ELSE UNION { { JoinHalves(l, r) : l \in SingleAxisHierarchy(SplitLhs(sorted)),
                                      r \in SingleAxisHierarchy(SplitRhs(sorted)) }
                 : sorted \in SingleAxisOrders(objs) }

\* C11: every call of create_hierarchy on more than 2 primitives keys all its
\* primitives on one axis, so the built tree is one that a single axis per
\* call produces
C11_OneAxisPerCall ==
    scene # <<>> => scene[1] \in SingleAxisHierarchy(objects)

\* a tree whose order needs two primitives of one call keyed on different axes
C11_MixedAxesOrder ==
    /\ scene # <<>>
    /\ Len(objects) > 2
    /\ scene[1] \notin SingleAxisHierarchy(objects)
    /\ \E ax \in [1..Len(objects) -> 0..2] :
          /\ \E i, j \in 1..Len(objects) : ax[i] # ax[j]
          /\ LET sorted == SortByCachedKey(objects, [i \in 1..Len(objects) |-> SortKey(objects[i], ax[i])])
             IN  /\ scene[1].objs[1] \in create_hierarchy(SplitLhs(sorted))
                 /\ scene[1].objs[2] \in create_hierarchy(SplitRhs(sorted))

(***************************************************************************)
(* ObjectGroup::create_hierarchy: the shape of the tree (object.rs 43-70)  *)
(***************************************************************************)
\* the state create_hierarchy returns in: the tree is built and no ray is cast yet
JustBuilt == pc = "ready" /\ scene # <<>>

IsGroup(node) == node.kind = "ObjectGroup"

\* a leaf holds primitives directly, an interior node holds two groups
IsLeaf(g) == \A i \in 1..Len(g.objs) : ~IsGroup(g.objs[i])

IsInterior(g) == Len(g.objs) = 2 /\ IsGroup(g.objs[1]) /\ IsGroup(g.objs[2])

RECURSIVE Leaves(_)
RECURSIVE LeavesFrom(_, _)
\* the primitives under the members i.. of objs, left to right
LeavesFrom(objs, i) ==
    IF i > Len(objs) THEN <<>> ELSE Leaves(objs[i]) \o LeavesFrom(objs, i + 1)

\* the primitives under a node, left to right
Leaves(node) == IF IsGroup(node) THEN LeavesFrom(node.objs, 1) ELSE <<node>>

RECURSIVE BuiltFrom(_, _)
\* node is a tree over the list objs: a leaf holding objs when there are at
\* most 2, else two groups over the first floor(n/2) and the remaining
\* ceil(n/2) primitives of a sorted order of objs
BuiltFrom(node, objs) ==
    IF Len(objs) <= 2
    THEN IsGroup(node) /\ node.objs = objs
    ELSE /\ IsGroup(node)
         /\ IsInterior(node)
         /\ \E sorted \in SortedOrders(objs) :
               /\ BuiltFrom(node.objs[1], SubSeq(sorted, 1, Len(objs) \div 2))
               /\ BuiltFrom(node.objs[2], SubSeq(sorted, (Len(objs) \div 2) + 1, Len(objs)))

\* the shape of one group node
NodeShape(g, n) ==
    /\ Len(g.objs) \in 1..2
    /\ IsLeaf(g) <=> n <= 2
    /\ IsLeaf(g) \/ IsInterior(g)
    /\ IsInterior(g) =>
          /\ Len(Leaves(g.objs[1])) = n \div 2
          /\ Len(Leaves(g.objs[2])) = n - (n \div 2)

\* C12: for an input of n >= 1 primitives every node of the built tree is a
\* leaf directly holding at most 2 primitives, exactly when its input has
\* n <= 2, or an interior node holding exactly two groups built from the first
\* floor(n/2) and the remaining ceil(n/2) primitives of the sorted list; no
\* node holds more than 2 members and no group is empty
C12_LeafOrTwoHalves ==
    JustBuilt =>
        /\ BuiltFrom(scene[1], objects)
        /\ \A g \in Groups(scene[1]) : NodeShape(g, Len(Leaves(g)))

\* an odd list: the root holds a leaf of 1 and a leaf of 2 primitives
C12_OddListSplit ==
    /\ JustBuilt
    /\ Len(objects) = 3
    /\ IsInterior(scene[1])
    /\ IsLeaf(scene[1].objs[1]) /\ Len(scene[1].objs[1].objs) = 1
    /\ IsLeaf(scene[1].objs[2]) /\ Len(scene[1].objs[2].objs) = 2

(***************************************************************************)
(* ObjectGroup::create_hierarchy keeps the primitives (object.rs 43-70)    *)
(***************************************************************************)
\* the number of times p occurs in the list
Count(p, list) == Cardinality({ i \in 1..Len(list) : list[i] = p })

Elems(list) == { list[i] : i \in 1..Len(list) }

\* the leaf groups of the tree that hold p
LeafGroupsOf(p, root) == { g \in Groups(root) : IsLeaf(g) /\ p \in Elems(g.objs) }

SamePrimitives(leaves, objs, root) ==
    /\ Len(leaves) = Len(objs)
    /\ \A p \in Elems(leaves) \cup Elems(objs) :
          /\ Count(p, leaves) = Count(p, objs)
          /\ Cardinality(LeafGroupsOf(p, root)) = 1

\* C16: create_hierarchy neither loses nor duplicates primitives: each input
\* primitive is in exactly one leaf of the built tree and the leaves together
\* hold exactly the input primitives, whatever axes the sort draws
C16_PrimitivesKept ==
    JustBuilt => SamePrimitives(Leaves(scene[1]), objects, scene[1])

\* a tree over the longest list whose leaves are in another order than the input
C16_ReorderedBySort ==
    /\ JustBuilt
    /\ Len(objects) = SceneLen
    /\ Len(objects) > 2
    /\ Leaves(scene[1]) # objects
    /\ Elems(Leaves(scene[1])) = Elems(objects)

(***************************************************************************)
(* FlipFace on its own: one call of hit and of bounding_box                *)
(* (object.rs 218-230)                                                     *)
(***************************************************************************)
\* every primitive of the world behind a FlipFace; the ceiling light is
\* wrapped twice
FlipWrapped == { FlipFace(World[i]) : i \in 1..Len(World) }

\* rays from above and from below the ceiling, and from inside the lamp ball
FlipRays ==
    { Ray_new(o, d) : o \in {V(0, 0, 12), V(0, 0, 8), V(0, 0, 0), V(5, 0, 1)},
                      d \in {V(0, 0, -1), V(0, 0, 1), V(1, 0, 0), V(-1, 0, 0), V(-3, 0, -4)} }

FlipCall(obj, ray) == [obj |-> obj, ray |-> ray, out |-> None]

FlipResult(h, bb) == [hit |-> h, bounding_box |-> bb]

InitFlip ==
    /\ TracerIdle
    /\ ClipIdle
    /\ RenderIdle
    /\ flip \in { FlipCall(obj, r) : obj \in FlipWrapped, r \in FlipRays }

\* flip.hit(&ray) and flip.bounding_box()
FlipHit ==
    /\ flip # <<>>
    /\ flip.out = None
    /\ flip' = [flip EXCEPT !.out = Some(FlipResult(hit(flip.obj, flip.ray), bounding_box(flip.obj)))]
    /\ UNCHANGED <<tracer, clip, renderer>>

NextFlip == FlipHit

SpecFlip == InitFlip /\ [][NextFlip]_vars

\* the wrapped primitive's hit when it faces the ray, no hit otherwise
FrontHitOnly(inner) ==
    IF IsSome(inner) /\ Unwrap(inner).front_face THEN inner ELSE None

FlipPassesFront(call, out) ==
    /\ out.hit = FrontHitOnly(hit(call.obj.obj, call.ray))
    /\ out.bounding_box = bounding_box(call.obj.obj)

\* C13: FlipFace::hit returns the wrapped primitive's hit unchanged when that
\* hit has front_face = true and no hit in every other case (the wrapped
\* primitive misses, or its hit has front_face = false); FlipFace::bounding_box
\* returns exactly the wrapped primitive's bounding box
C13_FlipFacePassesFrontHits ==
    flip # <<>> /\ IsSome(flip.out) => FlipPassesFront(flip, Unwrap(flip.out))

\* the wrapped primitive is hit on its back face and the wrapper returns no hit
C13_BackFaceHitDropped ==
    /\ flip # <<>>
    /\ IsSome(flip.out)
    /\ IsSome(hit(flip.obj.obj, flip.ray))
    /\ ~Unwrap(hit(flip.obj.obj, flip.ray)).front_face
    /\ Unwrap(flip.out).hit = None
    /\ IsSome(Unwrap(flip.out).bounding_box)

(***************************************************************************)
(* ObjectGroup::bounding_box and the stored box (object.rs 30-41, 101-109) *)
(***************************************************************************)
RECURSIVE bounding_box_calls(_)
RECURSIVE MemberCalls(_, _)
\* the calls of bounding_box() made on the members i.. of objs and below them
MemberCalls(objs, i) ==
    IF i > Len(objs) THEN 0
    ELSE 1 + bounding_box_calls(objs[i]) + MemberCalls(objs, i + 1)

\* the calls of bounding_box() on other objects that one call of
\* obj.bounding_box() makes: a group maps over its members, a FlipFace
\* forwards to the wrapped object, a Sphere and a Rect compute from their fields
bounding_box_calls(obj) ==
    CASE obj.kind = "ObjectGroup" -> MemberCalls(obj.objs, 1)
      [] obj.kind = "FlipFace"    -> 1 + bounding_box_calls(obj.obj)
      [] OTHER                    -> 0

\* the value bounding_box() returns is the box stored at construction
ReturnsStoredBox(g) == bounding_box(g) = Some(g.bb)

\* the box of every group node equals the stored one, whatever is recomputed
StoredBoxReturned ==
    JustBuilt => \A g \in Groups(scene[1]) : ReturnsStoredBox(g)

\* C14: ObjectGroup::bounding_box returns the box stored in the node when it
\* was built, the box its hit test uses, and does not recompute it from the
\* members: a call on a group calls bounding_box() on no member
C14_StoredBoxNotRecomputed ==
    JustBuilt =>
        \A g \in Groups(scene[1]) : ReturnsStoredBox(g) /\ bounding_box_calls(g) = 0

\* an interior node whose bounding_box() walks its two groups and their members
C14_RecomputedFromMembers ==
    /\ JustBuilt
    /\ IsInterior(scene[1])
    /\ ReturnsStoredBox(scene[1])
    /\ bounding_box_calls(scene[1]) >= 2 + Len(objects)

(***************************************************************************)
(* The row-completion counter (main.rs 487-515)                            *)
(***************************************************************************)
\* the rows whose fetch_add has returned
DoneRows == { y \in Lines : rows[y].st = "done" }

\* the values fetch_add returned to the rows
Observed == { rows[y].n : y \in DoneRows }

\* no two rows observed the same value, the values are 0 .. counter - 1, and
\* the counter is the number of finished rows
NoIncrementLost ==
    rpc # "idle" =>
        /\ \A y1, y2 \in DoneRows : y1 # y2 => rows[y1].n # rows[y2].n
        /\ Observed = 0..(lines_complete - 1)
        /\ lines_complete = Cardinality(DoneRows)
        /\ DoneRows = Lines => lines_complete = VIEWPORT_HEIGHT /\ Observed = 0..(VIEWPORT_HEIGHT - 1)

\* C15: the counter is incremented by one atomic fetch-and-add per finished
\* row: under every interleaving of the row tasks the values the rows observe
\* are pairwise distinct and are exactly 0 .. height-1 once all rows are over,
\* the counter never decreases, and it equals the number of rows once all rows
\* have completed
C15_CounterCountsRows ==
    [][lines_complete' >= lines_complete /\ NoIncrementLost /\ NoIncrementLost']_vars

\* all rows are over, the counter is the height, and the rows did not finish
\* in the order of the range: the first row observed a later value than the
\* second
C15_AllRowsCountedOutOfOrder ==
    /\ rpc = "par"
    /\ DoneRows = Lines
    /\ lines_complete = VIEWPORT_HEIGHT
    /\ Observed = 0..(VIEWPORT_HEIGHT - 1)
    /\ rows[0].n > rows[1].n
=============================================================================
